---- MODULE Spec2Model ----
(***************************************************************************)
(* A model of the quiz-generation backend: the two text chunkers, the      *)
(* answer parser, the RAG index builder and retriever, and the result      *)
(* recorder.                                                               *)
(*                                                                         *)
(* Strings are sequences of one-character strings, so that slicing,        *)
(* searching and trimming are computed character by character as the       *)
(* Python code computes them.  Each component has its own specification    *)
(* (SpecChunk, SpecParse, SpecIndex, SpecSearch, SpecSave, SpecSaveSeq);   *)
(* a specification holds the variables of the other components at their    *)
(* idle values.                                                            *)
(***************************************************************************)
EXTENDS Integers, Sequences, FiniteSets, TLC

VARIABLES
    \* ---- chunkers (utils.chunk_text, build_rag_index.chunk_text, split_text)
    ck_text,      \* the text both chunkers are called with
    ck_max,       \* the maximum chunk length they are called with
    ct_pc,        \* utils.chunk_text: "call" | "done"
    ct_chunks,    \* utils.chunk_text: the returned list
    bt_pc,        \* build_rag_index.chunk_text: "call" | "done"
    bt_chunks,    \* build_rag_index.chunk_text: the returned list
    sp_pc,        \* split_text: "loop" | "done"
    sp_text,      \* split_text: the local `text` (what remains to be split)
    sp_chunks,    \* split_text: the local `chunks`
    \* ---- answer parser (utils.parse_question)
    pq_raw,       \* the raw generated text parse_question is called with
    pq_pc,        \* "call" | "returned" | "raised"
    pq_result,    \* the returned record (NoQuestion until it returns)
    \* ---- index builder (build_rag_index.build_index) and its two artifacts
    index_file,   \* backend/rag_index.pkl : [exists, vectors]
    chunks_file,  \* backend/rag_chunks.pkl: [exists, chunks]
    bi_pc,        \* build_index: "idle" | "chunk" | "write_index" | "write_chunks"
    bi_text,      \* build_index: the local `text`
    bi_chunks,    \* build_index: the local `chunks`
    bi_index,     \* build_index: the local `index` (the vectors added to it)
    \* ---- retriever (utils.search_similar_chunks)
    faiss_index,  \* utils.faiss_index: the vectors loaded at import
    chunks_data,  \* utils.chunks_data: the chunks loaded at import
    ss_pc,        \* search_similar_chunks: "idle" | "returned" | "raised"
    ss_top_k,     \* its argument top_k
    ss_indices,   \* its local indices[0], the labels FAISS returned
    ss_result,    \* the list it returned
    \* ---- result recorder (utils.save_dashboard_results)
    log_file,     \* dashboard_results.json: [state, data]
    sv_pc,        \* per writer: "idle" | "read" | "open" | "dump" | "done" | "raised"
    sv_result,    \* per writer: the local `result`
    sv_data,      \* per writer: the local `data`
    clock,        \* the wall clock datetime.now() reads
    history,      \* the calls made so far, in order: what was supplied, and when
    \* ---- quiz assembler (utils.generate_questions_by_level)
    gq_pc,        \* "idle" | "loop" | "search" | "generate" | "parse" | "returned" | "raised"
    gq_level,     \* its argument level
    gq_max,       \* its argument max_questions
    gq_i,         \* the iterations of `for _ in range(max_questions)` completed
    gq_questions, \* its local `questions`
    gq_topic,     \* its local `topic`
    gq_context,   \* its local `context`
    gq_raw,       \* its local `raw`
    gq_return,    \* what the caller receives: nothing yet, a list, or an exception
    gq_log,       \* what the call did so far: topic picks, retrievals, generation
                  \* calls, texts received, texts parsed
    \* ---- user store (database.py)
    db_table,     \* users.db holds the `users` table
    db_rows,      \* the rows of `users`, in insertion order
    db_seq,       \* the largest id AUTOINCREMENT has given
    db_log,       \* the register_user and login_user calls made so far, each
                  \* with its arguments, its outcome and the rows it left
    \* ---- quiz tab of one browser session (frontend/main.py)
    st_keys,      \* the keys st.session_state holds
    st_questions, \* st.session_state["questions"]
    st_niveau,    \* st.session_state["niveau"]
    st_reponses,  \* st.session_state["reponses"]
    st_score,     \* st.session_state["score"]
    st_index,     \* st.session_state["index"]
    ui_niveau,    \* the level selected in the radio of line 75
    ui_rerun,     \* st.rerun() was called: one more run is due
    ui_error,     \* the exception the last run ended with ("" when it ended well)
    qz_events,    \* the interactions of the user so far
    qz_saves,     \* the save_dashboard_results calls since the last launch
    qz_validations \* the answers validated since the last launch

chunkVars == <<ck_text, ck_max, ct_pc, ct_chunks, bt_pc, bt_chunks,
               sp_pc, sp_text, sp_chunks>>
parseVars == <<pq_raw, pq_pc, pq_result>>
indexVars == <<index_file, chunks_file, bi_pc, bi_text, bi_chunks, bi_index>>
searchVars == <<faiss_index, chunks_data, ss_pc, ss_top_k, ss_indices, ss_result>>
saveVars == <<log_file, sv_pc, sv_result, sv_data, clock, history>>
batchVars == <<gq_pc, gq_level, gq_max, gq_i, gq_questions, gq_topic, gq_context,
               gq_raw, gq_return, gq_log>>

usersVars == <<db_table, db_rows, db_seq, db_log>>
quizVars == <<st_keys, st_questions, st_niveau, st_reponses, st_score, st_index,
              ui_niveau, ui_rerun, ui_error, qz_events, qz_saves, qz_validations>>

vars == <<chunkVars, parseVars, indexVars, searchVars, saveVars, batchVars,
          usersVars, quizVars>>

\* What each component's actions leave alone.
notChunk == <<parseVars, indexVars, searchVars, saveVars, batchVars, usersVars,
             quizVars>>
notParse == <<chunkVars, indexVars, searchVars, saveVars, batchVars, usersVars,
             quizVars>>
notIndex == <<chunkVars, parseVars, searchVars, saveVars, batchVars, usersVars,
             quizVars>>
notSearch == <<chunkVars, parseVars, indexVars, saveVars, batchVars, usersVars,
             quizVars>>
notSave == <<chunkVars, parseVars, indexVars, searchVars, batchVars, usersVars,
             quizVars>>
notBatch == <<chunkVars, parseVars, indexVars, searchVars, saveVars, usersVars,
             quizVars>>
notUsers == <<chunkVars, parseVars, indexVars, searchVars, saveVars, batchVars,
             quizVars>>
\* the quiz tab writes the session log (log_file) and reads the clock
notQuiz == <<chunkVars, parseVars, indexVars, searchVars, batchVars, usersVars,
            sv_pc, sv_result, sv_data, history>>

(***************************************************************************)
(* Bounds of the model.                                                    *)
(***************************************************************************)
MaxTextLen == 4
MaxChunkLen == 3
MaxLines == 3
MaxDocLen == 3
MaxTopK == 3
MaxCalls == 3
MaxQuestions == 3
MaxAuthCalls == 3
MaxEvents == 6
\* Stands for build_index's chunk width, chunk_text's default max_chars = 1000,
\* scaled down to the documents of the model.
ScaledMaxChars == 2

(***************************************************************************)
(* Python string and list primitives.                                      *)
(***************************************************************************)
Min(a, b) == IF a <= b THEN a ELSE b

NL == "\n"

\* The characters str.strip() removes (those of them the model's texts use).
Whitespace == {" ", NL}

\* s[i:j] for 0 <= i, 0 <= j (Python clamps j to len(s)).
PySlice(s, i, j) == SubSeq(s, i + 1, Min(j, Len(s)))

\* s.rfind(c): the highest 0-based index of c in s, or -1.
RFind(s, c) ==
    LET hits == {i \in 1..Len(s) : s[i] = c}
    IN  IF hits = {} THEN -1
        ELSE (CHOOSE i \in hits : \A j \in hits : j <= i) - 1

\* s.strip()
Strip(s) ==
    LET keep == {i \in 1..Len(s) : s[i] \notin Whitespace}
    IN  IF keep = {} THEN <<>>
        ELSE LET lo == CHOOSE i \in keep : \A j \in keep : i <= j
                 hi == CHOOSE i \in keep : \A j \in keep : j <= i
             IN  SubSeq(s, lo, hi)

\* "".join(parts)
RECURSIVE Concat(_)
Concat(parts) ==
    IF parts = <<>> THEN <<>> ELSE Head(parts) \o Concat(Tail(parts))

\* len(range(0, n, step)) for step > 0
RangeLen(n, step) == (n + step - 1) \div step

\* All sequences over S of length at most n.
SeqsUpTo(S, n) == UNION {[1..k -> S] : k \in 0..n}

(***************************************************************************)
(* utils.chunk_text and build_rag_index.chunk_text: fixed-width slicing.   *)
(***************************************************************************)
\* chunk_text had it iterated over range(0, len(text) + 1, max_chars)
ChunkTextOffByOne(text, max_chars) ==
    [k \in 1..RangeLen(Len(text) + 1, max_chars) |->
        PySlice(text, (k - 1) * max_chars, (k - 1) * max_chars + max_chars)]

\* [text[i:i+max_chars] for i in range(0, len(text), max_chars)]
ChunkText(text, max_chars) ==
    [k \in 1..RangeLen(Len(text), max_chars) |->
        PySlice(text, (k - 1) * max_chars, (k - 1) * max_chars + max_chars)]

\* chunk_text had it sliced text[i:i+max_chars+1]
BuildChunkTextOverlap(text, max_chars) ==
    [k \in 1..RangeLen(Len(text), max_chars) |->
        PySlice(text, (k - 1) * max_chars, (k - 1) * max_chars + max_chars + 1)]

\* the copy in build_rag_index.py
BuildChunkText(text, max_chars) ==
    [k \in 1..RangeLen(Len(text), max_chars) |->
        PySlice(text, (k - 1) * max_chars, (k - 1) * max_chars + max_chars)]

(***************************************************************************)
(* pdf_to_quiz_mistral.split_text: cut at the last newline of the window.  *)
(***************************************************************************)
\* the cut position had the hard cut been made at max_len + 1
SplitIdxLong(text, max_len) ==
    LET r == RFind(PySlice(text, 0, max_len), NL)
    IN  IF r = -1 THEN max_len + 1 ELSE r

\* idx = text[:max_len].rfind("\n"); if idx == -1: idx = max_len
SplitIdx(text, max_len) ==
    LET r == RFind(PySlice(text, 0, max_len), NL)
    IN  IF r = -1 THEN max_len ELSE r

ChunkAlphabet == {"a", "b", " ", NL}

InitChunk ==
    /\ ck_text \in SeqsUpTo(ChunkAlphabet, MaxTextLen)
    /\ ck_max \in 1..MaxChunkLen
    /\ ct_pc = "call" /\ ct_chunks = <<>>
    /\ bt_pc = "call" /\ bt_chunks = <<>>
    /\ sp_pc = "loop" /\ sp_text = ck_text /\ sp_chunks = <<>>

ChunkTextCall ==
    /\ ct_pc = "call"
    /\ ct_chunks' = ChunkText(ck_text, ck_max)
    /\ ct_pc' = "done"
    /\ UNCHANGED <<ck_text, ck_max, bt_pc, bt_chunks, sp_pc, sp_text, sp_chunks>>
    /\ UNCHANGED notChunk

BuildChunkTextCall ==
    /\ bt_pc = "call"
    /\ bt_chunks' = BuildChunkText(ck_text, ck_max)
    /\ bt_pc' = "done"
    /\ UNCHANGED <<ck_text, ck_max, ct_pc, ct_chunks, sp_pc, sp_text, sp_chunks>>
    /\ UNCHANGED notChunk

\* One iteration of `while len(text) > max_len`.  A run that returns shortens
\* `text` in every iteration, so it makes at most len(text) iterations; the
\* guard on Len(sp_chunks) stops the model (not the program) after that many.
SplitTextLoop ==
    /\ sp_pc = "loop"
    /\ Len(sp_text) > ck_max
    /\ Len(sp_chunks) <= Len(ck_text)
    /\ LET idx == SplitIdx(sp_text, ck_max)
       IN  /\ sp_chunks' = Append(sp_chunks, Strip(PySlice(sp_text, 0, idx)))
           /\ sp_text' = PySlice(sp_text, idx, Len(sp_text))
    /\ UNCHANGED <<ck_text, ck_max, ct_pc, ct_chunks, bt_pc, bt_chunks, sp_pc>>
    /\ UNCHANGED notChunk

\* The loop exit: chunks.append(text.strip()); return chunks
SplitTextReturn ==
    /\ sp_pc = "loop"
    /\ ~(Len(sp_text) > ck_max)
    /\ sp_chunks' = Append(sp_chunks, Strip(sp_text))
    /\ sp_pc' = "done"
    /\ UNCHANGED <<ck_text, ck_max, ct_pc, ct_chunks, bt_pc, bt_chunks, sp_text>>
    /\ UNCHANGED notChunk

IdleChunk ==
    /\ ck_text = <<>> /\ ck_max = 1
    /\ ct_pc = "done" /\ ct_chunks = <<>>
    /\ bt_pc = "done" /\ bt_chunks = <<>>
    /\ sp_pc = "done" /\ sp_text = <<>> /\ sp_chunks = <<>>

NextChunk ==
    \/ ChunkTextCall
    \/ BuildChunkTextCall
    \/ SplitTextLoop
    \/ SplitTextReturn

(***************************************************************************)
(* utils.parse_question: heuristic parsing of the generated text.          *)
(***************************************************************************)
\* s.split(sep) for a one-character sep: always at least one piece.
RECURSIVE SplitOn(_, _)
SplitOn(s, sep) ==
    LET hits == {i \in 1..Len(s) : s[i] = sep}
    IN  IF hits = {} THEN <<s>>
        ELSE LET i == CHOOSE h \in hits : \A j \in hits : h <= j
             IN  <<SubSeq(s, 1, i - 1)>> \o SplitOn(SubSeq(s, i + 1, Len(s)), sep)

\* sub in s
Contains(s, sub) ==
    \E i \in 1..(Len(s) - Len(sub) + 1) : SubSeq(s, i, i + Len(sub) - 1) = sub

\* s.startswith(prefix)
StartsWith(s, prefix) ==
    Len(s) >= Len(prefix) /\ SubSeq(s, 1, Len(prefix)) = prefix

\* next((x for x in seq if ...), default), hits being the indices of the
\* elements of seq that pass the test
FirstOr(seq, hits, default) ==
    IF hits = {} THEN default
    ELSE seq[CHOOSE i \in hits : \A j \in hits : i <= j]

\* sep.join(parts)
RECURSIVE Join(_, _)
Join(parts, sep) ==
    IF parts = <<>> THEN <<>>
    ELSE IF Len(parts) = 1 THEN parts[1]
    ELSE parts[1] \o <<sep>> \o Join(Tail(parts), sep)

QuestionMark == <<"?">>
ChoicePrefixes == {<<"A", ")">>, <<"B", ")">>, <<"C", ")">>, <<"D", ")">>}
BonneReponse == <<"B", "o", "n", "n", "e", " ", "r", "é", "p", "o", "n", "s", "e">>
Reponse == <<"R", "é", "p", "o", "n", "s", "e">>
LabelLetters == {"A", "B", "C", "D"}

\* lines = raw.split("\n"); lines = [line.strip() for line in lines if line.strip()]
ParseLines(raw) ==
    LET split == SplitOn(raw, NL)
        stripped == [i \in 1..Len(split) |-> Strip(split[i])]
    IN  SelectSeq(stripped, LAMBDA l : l # <<>>)

\* choices = [l for l in lines if l.startswith(("A)", "B)", "C)", "D)"))]
ParseChoices(lines) ==
    SelectSeq(lines, LAMBDA l : \E pre \in ChoicePrefixes : StartsWith(l, pre))

\* correct_line = next((l for l in lines if "Bonne réponse" in l or "Réponse" in l), "")
ParseCorrectLine(lines) ==
    FirstOr(lines,
            {i \in 1..Len(lines) :
                Contains(lines[i], BonneReponse) \/ Contains(lines[i], Reponse)},
            <<>>)

\* re.search(r"([A-D]\))\s*(.+)", correct_line), group(1); <<>> when there is no
\* match.  The leftmost match wins.  After the label, \s* may match nothing and
\* (.+) needs one character (any but a newline, and a line holds none), so a
\* label matches where at least one character follows it.
RegexLabel(line) ==
    LET hits == {i \in 1..(Len(line) - 2) :
                    line[i] \in LabelLetters /\ line[i + 1] = ")"}
    IN  IF hits = {} THEN <<>>
        ELSE LET i == CHOOSE h \in hits : \A j \in hits : h <= j
             IN  SubSeq(line, i, i + 1)

\* the answer had it been the label of the correct-answer line itself
ParseAnswerLabelOnly(lines) == RegexLabel(ParseCorrectLine(lines))

\* correct_full = "" ; if match: correct_full = next((c for c in choices if
\* c.startswith(label)), "")
ParseAnswer(lines) ==
    LET label == RegexLabel(ParseCorrectLine(lines))
        choices == ParseChoices(lines)
    IN  IF label = <<>> THEN <<>>
        ELSE FirstOr(choices,
                     {i \in 1..Len(choices) : StartsWith(choices[i], label)},
                     <<>>)

\* question = next((l for l in lines if "?" in l), lines[0]): the default
\* lines[0] is evaluated before next() is called, so an empty `lines` raises
\* IndexError whether or not it would be used.
ParseRaises(raw) == ParseLines(raw) = <<>>

\* the question had it always been the first line
ParseQuestionFirstLine(lines) == lines[1]

ParseQuestion(lines) ==
    FirstOr(lines,
            {i \in 1..Len(lines) : Contains(lines[i], QuestionMark)},
            lines[1])

\* The dict parse_question returns (for a raw text on which it does not raise).
ParseResult(raw) ==
    LET lines == ParseLines(raw)
    IN  [question |-> ParseQuestion(lines),
         choices  |-> ParseChoices(lines),
         answer   |-> ParseAnswer(lines)]

NoQuestion == [question |-> <<>>, choices |-> <<>>, answer |-> <<>>]

\* The lines a generation is assembled from: blank lines, a question, a
\* statement, choices (one with leading whitespace, one repeating a label) and
\* correct-answer lines in both phrasings, with and without a label.
LinePool ==
    { <<>>,
      <<" ">>,
      <<"Q", "?">>,
      <<"H", ".">>,
      <<"A", ")", " ", "x">>,
      <<" ", "B", ")", " ", "y">>,
      <<"B", ")", " ", "z">>,
      BonneReponse \o <<" ", ":", " ", "B", ")", " ", "y">>,
      Reponse \o <<" ", ":", " ", "B", ")">>,
      Reponse \o <<" ", "C", ")", " ", "w">>,
      Reponse }

RawTexts == {Join(ls, NL) : ls \in SeqsUpTo(LinePool, MaxLines)}

InitParse ==
    /\ pq_raw \in RawTexts
    /\ pq_pc = "call"
    /\ pq_result = NoQuestion

IdleParse ==
    /\ pq_raw = <<>> /\ pq_pc = "idle" /\ pq_result = NoQuestion

ParseQuestionReturn ==
    /\ pq_pc = "call"
    /\ ~ParseRaises(pq_raw)
    /\ pq_result' = ParseResult(pq_raw)
    /\ pq_pc' = "returned"
    /\ UNCHANGED pq_raw
    /\ UNCHANGED notParse

ParseQuestionRaise ==
    /\ pq_pc = "call"
    /\ ParseRaises(pq_raw)
    /\ pq_pc' = "raised"
    /\ UNCHANGED <<pq_raw, pq_result>>
    /\ UNCHANGED notParse

NextParse ==
    \/ ParseQuestionReturn
    \/ ParseQuestionRaise

(***************************************************************************)
(* build_rag_index.build_index and the two persisted artifacts.            *)
(***************************************************************************)
\* The embedding model is a third-party function of the text alone; here a
\* chunk's vector counts its "a"s and its "b"s (distinct texts may share a
\* vector, as with any embedding).
Count(s, c) == Cardinality({i \in 1..Len(s) : s[i] = c})
Embed(s) == <<Count(s, "a"), Count(s, "b")>>

\* embedding_model.encode(chunks): one vector per chunk, in order
Encode(chunks) == [i \in 1..Len(chunks) |-> Embed(chunks[i])]

DocAlphabet == {"a", "b"}
Docs == SeqsUpTo(DocAlphabet, MaxDocLen)

NoFile == [exists |-> FALSE, data |-> <<>>]
FileOf(data) == [exists |-> TRUE, data |-> data]

InitIndex ==
    /\ index_file = NoFile
    /\ chunks_file = NoFile
    /\ bi_pc = "idle" /\ bi_text = <<>> /\ bi_chunks = <<>> /\ bi_index = <<>>

IdleIndex == InitIndex

\* line 66-67: text = extract_text_from_pdf(pdf_path); the PDF is whatever
\* document is there when the build runs.
BuildExtract ==
    /\ bi_pc = "idle"
    /\ \E doc \in Docs : bi_text' = doc
    /\ bi_pc' = "chunk"
    /\ UNCHANGED <<index_file, chunks_file, bi_chunks, bi_index>>
    /\ UNCHANGED notIndex

\* lines 68-76: chunk, embed, build the in-memory index.  embeddings.shape[1]
\* needs a two-dimensional array, which encode() returns only for at least one
\* chunk.
BuildEncode ==
    /\ bi_pc = "chunk"
    /\ BuildChunkText(bi_text, ScaledMaxChars) # <<>>
    /\ bi_chunks' = BuildChunkText(bi_text, ScaledMaxChars)
    /\ bi_index' = Encode(bi_chunks')
    /\ bi_pc' = "write_index"
    /\ UNCHANGED <<index_file, chunks_file, bi_text>>
    /\ UNCHANGED notIndex

\* line 79: faiss.write_index(index, "backend/rag_index.pkl"), taken as one
\* atomic replacement of the file (the assumption most favourable to the code).
BuildWriteIndex ==
    /\ bi_pc = "write_index"
    /\ index_file' = FileOf(bi_index)
    /\ bi_pc' = "write_chunks"
    /\ UNCHANGED <<chunks_file, bi_text, bi_chunks, bi_index>>
    /\ UNCHANGED notIndex

\* lines 82-85: pickle.dump(chunks, f), again as one atomic replacement; the
\* build is over.
BuildWriteChunks ==
    /\ bi_pc = "write_chunks"
    /\ chunks_file' = FileOf(bi_chunks)
    /\ bi_pc' = "idle"
    /\ bi_text' = <<>> /\ bi_chunks' = <<>> /\ bi_index' = <<>>
    /\ UNCHANGED index_file
    /\ UNCHANGED notIndex

\* Any step of a running build may raise (the PDF cannot be parsed, there is no
\* chunk to embed, the embedding or a write fails): nothing catches it, the
\* process ends and the files stay as they are.
BuildFail ==
    /\ bi_pc # "idle"
    /\ bi_pc' = "idle"
    /\ bi_text' = <<>> /\ bi_chunks' = <<>> /\ bi_index' = <<>>
    /\ UNCHANGED <<index_file, chunks_file>>
    /\ UNCHANGED notIndex

NextIndex ==
    \/ BuildExtract
    \/ BuildEncode
    \/ BuildWriteIndex
    \/ BuildWriteChunks
    \/ BuildFail

(***************************************************************************)
(* utils.search_similar_chunks over the artifacts loaded at import.        *)
(***************************************************************************)
\* squared L2 distance (IndexFlatL2)
L2(u, v) == (u[1] - v[1]) * (u[1] - v[1]) + (u[2] - v[2]) * (u[2] - v[2])

\* The 0-based positions in S (1-based here) by increasing distance to q, the
\* lower position first among equals.
RECURSIVE NearestFirst(_, _, _)
NearestFirst(S, vectors, q) ==
    IF S = {} THEN <<>>
    ELSE LET best == CHOOSE i \in S : \A j \in S :
                        \/ L2(vectors[i], q) < L2(vectors[j], q)
                        \/ L2(vectors[i], q) = L2(vectors[j], q) /\ i <= j
         IN  <<best - 1>> \o NearestFirst(S \ {best}, vectors, q)

\* faiss_index.search(embedding, top_k): k labels, nearest first, and -1 for
\* every slot beyond the ntotal vectors the index holds.
FaissSearch(vectors, q, k) ==
    LET order == NearestFirst(1..Len(vectors), vectors, q)
    IN  [i \in 1..k |-> IF i <= Len(order) THEN order[i] ELSE -1]

\* list[i] raises IndexError outside -len..len-1
PyIndexRaises(list, i) == i >= Len(list) \/ i < 0 - Len(list)

\* list[i]: a negative i counts from the end
PyIndex(list, i) == IF i >= 0 THEN list[i + 1] ELSE list[Len(list) + i + 1]

Queries == SeqsUpTo(DocAlphabet, 2)

\* The artifacts utils.py loads at import (lines 95-99): the index of one build
\* and the chunk list of one build.  They are of the same build unless the
\* process started between build_index's two writes or after its second write
\* failed.
InitSearch ==
    /\ \E d1 \in Docs, d2 \in Docs :
          /\ d1 # <<>> /\ d2 # <<>>
          /\ faiss_index = Encode(BuildChunkText(d1, ScaledMaxChars))
          /\ chunks_data = BuildChunkText(d2, ScaledMaxChars)
    /\ ss_pc = "idle" /\ ss_top_k = 0 /\ ss_indices = <<>> /\ ss_result = <<>>

IdleSearch ==
    /\ faiss_index = <<>> /\ chunks_data = <<>>
    /\ ss_pc = "idle" /\ ss_top_k = 0 /\ ss_indices = <<>> /\ ss_result = <<>>

SearchReturn ==
    /\ \E query \in Queries, top_k \in 1..MaxTopK :
          LET indices == FaissSearch(faiss_index, Embed(query), top_k)
          IN  /\ \A i \in 1..Len(indices) : ~PyIndexRaises(chunks_data, indices[i])
              /\ ss_top_k' = top_k
              /\ ss_indices' = indices
              /\ ss_result' = [i \in 1..Len(indices) |-> PyIndex(chunks_data, indices[i])]
              /\ ss_pc' = "returned"
    /\ UNCHANGED <<faiss_index, chunks_data>>
    /\ UNCHANGED notSearch

SearchRaise ==
    /\ \E query \in Queries, top_k \in 1..MaxTopK :
          LET indices == FaissSearch(faiss_index, Embed(query), top_k)
          IN  /\ \E i \in 1..Len(indices) : PyIndexRaises(chunks_data, indices[i])
              /\ ss_top_k' = top_k
              /\ ss_indices' = indices
              /\ ss_result' = <<>>
              /\ ss_pc' = "raised"
    /\ UNCHANGED <<faiss_index, chunks_data>>
    /\ UNCHANGED notSearch

NextSearch ==
    \/ SearchReturn
    \/ SearchRaise

(***************************************************************************)
(* utils.save_dashboard_results: read the whole log, append, rewrite it.   *)
(***************************************************************************)
Writers == {1, 2}

\* The file is absent, holds a JSON list ("json"), is empty (just truncated by
\* open(path, "w")) or holds bytes that are not a JSON document ("corrupt").
AbsentLog == [state |-> "absent", data |-> <<>>]
EmptyLog == [state |-> "empty", data |-> <<>>]
CorruptLog == [state |-> "corrupt", data |-> <<>>]

\* json.dump of one record: its key/value pairs in insertion order
JsonObject(r) ==
    << <<"level", r.level>>, <<"score", r.score>>, <<"total", r.total>>,
       <<"answers", r.answers>>, <<"timestamp", r.timestamp>> >>

\* the dump had it written the new record alone
JsonDumpLastOnly(data) ==
    IF data = <<>> THEN <<>> ELSE <<JsonObject(data[Len(data)])>>

\* json.dump(data, f, indent=4, ensure_ascii=False)
JsonDump(data) == [i \in 1..Len(data) |-> JsonObject(data[i])]

\* the value stored under a key of a decoded object
JsonField(obj, key) ==
    LET i == CHOOSE j \in 1..Len(obj) : obj[j][1] = key IN obj[i][2]

\* json.load(f) of a JSON list of such objects
JsonLoad(text) ==
    [i \in 1..Len(text) |->
        [level     |-> JsonField(text[i], "level"),
         score     |-> JsonField(text[i], "score"),
         total     |-> JsonField(text[i], "total"),
         answers   |-> JsonField(text[i], "answers"),
         timestamp |-> JsonField(text[i], "timestamp")]]

\* lines 218-224: the record built from the arguments and the current time
MakeResult(args, now) ==
    [level |-> args.level, score |-> args.score, total |-> args.total,
     answers |-> args.answers, timestamp |-> now]

\* the load had it ignored the existing file
LoadNothing(file) == <<>>

\* lines 226-230: the existing list, [] when the file does not exist
\* (for a file that json.load can read)
LoadExisting(file) ==
    IF file.state = "absent" THEN <<>> ELSE JsonLoad(file.data)

\* What a quiz session passes: its level, score, number of questions and the
\* per-question outcomes.
RightAnswer == [question |-> "Q1?", user_answer |-> "A) x", correct_answer |-> "A) x"]
WrongAnswer == [question |-> "Q2?", user_answer |-> "A) x", correct_answer |-> "B) y"]
SaveArgs ==
    { [level |-> "Débutant", score |-> 0, total |-> 0, answers |-> <<>>],
      [level |-> "Débutant", score |-> 0, total |-> 1, answers |-> <<WrongAnswer>>],
      [level |-> "Expert", score |-> 1, total |-> 1, answers |-> <<RightAnswer>>],
      [level |-> "Expert", score |-> 1, total |-> 2,
       answers |-> <<RightAnswer, WrongAnswer>>] }

NoResult == [level |-> "", score |-> 0, total |-> 0, answers |-> <<>>, timestamp |-> 0]

InitSave ==
    /\ log_file = AbsentLog
    /\ sv_pc = [p \in Writers |-> "idle"]
    /\ sv_result = [p \in Writers |-> NoResult]
    /\ sv_data = [p \in Writers |-> <<>>]
    /\ clock = 1
    /\ history = <<>>

IdleSave == InitSave

\* The call, lines 218-225: `result` is built with the time read from the
\* clock; two readings of the clock never give the same time.
SaveCall(p) ==
    /\ sv_pc[p] \in {"idle", "done", "raised"}
    /\ Len(history) < MaxCalls
    /\ \E args \in SaveArgs :
          /\ sv_result' = [sv_result EXCEPT ![p] = MakeResult(args, clock)]
          /\ history' = Append(history, [by |-> p, args |-> args, at |-> clock])
    /\ clock' = clock + 1
    /\ sv_data' = [sv_data EXCEPT ![p] = <<>>]
    /\ sv_pc' = [sv_pc EXCEPT ![p] = "read"]
    /\ UNCHANGED log_file
    /\ UNCHANGED notSave

\* lines 226-232: load the existing list (json.load raises JSONDecodeError on
\* an empty or corrupt file) and append the new record to it.
SaveRead(p) ==
    /\ sv_pc[p] = "read"
    /\ IF log_file.state \in {"empty", "corrupt"}
       THEN /\ sv_pc' = [sv_pc EXCEPT ![p] = "raised"]
            /\ UNCHANGED sv_data
       ELSE /\ sv_data' = [sv_data EXCEPT ![p] = Append(LoadExisting(log_file), sv_result[p])]
            /\ sv_pc' = [sv_pc EXCEPT ![p] = "open"]
    /\ UNCHANGED <<log_file, sv_result, clock, history>>
    /\ UNCHANGED notSave

\* line 234: open(path, "w") truncates the file.
SaveOpen(p) ==
    /\ sv_pc[p] = "open"
    /\ log_file' = EmptyLog
    /\ sv_pc' = [sv_pc EXCEPT ![p] = "dump"]
    /\ UNCHANGED <<sv_result, sv_data, clock, history>>
    /\ UNCHANGED notSave

\* What the file holds once this writer's bytes are written from offset 0: its
\* document if the file was still empty; if another writer wrote since this one
\* truncated the file, its document when that is at least as long in bytes, and
\* otherwise its document followed by the rest of the other's, which is no
\* JSON document.
DumpOutcomes(file, data) ==
    IF file.state = "empty"
    THEN {[state |-> "json", data |-> JsonDump(data)]}
    ELSE {[state |-> "json", data |-> JsonDump(data)], CorruptLog}

\* lines 234-235: json.dump(data, f) and the close of the file.
SaveDump(p) ==
    /\ sv_pc[p] = "dump"
    /\ log_file' \in DumpOutcomes(log_file, sv_data[p])
    /\ sv_pc' = [sv_pc EXCEPT ![p] = "done"]
    /\ UNCHANGED <<sv_result, sv_data, clock, history>>
    /\ UNCHANGED notSave

\* Concurrent writers: any writer takes its next step.
NextSave ==
    \/ \E p \in Writers : SaveCall(p)
    \/ \E p \in Writers : SaveRead(p)
    \/ \E p \in Writers : SaveOpen(p)
    \/ \E p \in Writers : SaveDump(p)

\* No concurrency: one writer makes call after call.
NextSaveSeq ==
    \/ SaveCall(1)
    \/ SaveRead(1)
    \/ SaveOpen(1)
    \/ SaveDump(1)

(***************************************************************************)
(* utils.generate_questions_by_level: pick a topic, retrieve, generate,    *)
(* parse, max_questions times.                                             *)
(***************************************************************************)
Debutant == <<"D", "é", "b", "u", "t", "a", "n", "t">>
Intermediaire == <<"I", "n", "t", "e", "r", "m", "é", "d", "i", "a", "i", "r", "e">>
Expert == <<"E", "x", "p", "e", "r", "t">>
Levels == {Debutant, Intermediaire, Expert}

\* two of the twelve `themes`
Themes == { <<"m", "a", "l", "a", "i", "s", "e">>,
            <<"b", "r", "û", "l", "u", "r", "e">> }

\* top_k=5, line 181
BatchTopK == 5

\* line 180: the query names the level and the topic (the other words of the
\* f-string are the same in every query and are left out)
QueryText(level, topic) == level \o <<" ">> \o topic

\* lines 182-197: the prompt carries the topic, the level and the context
Prompt(topic, level, context) == <<topic, level, context>>

\* questions.append(parsed) had it been questions.insert(0, parsed)
PrependQuestion(questions, parsed) == <<parsed>> \o questions

\* line 200: questions.append(parsed)
AppendQuestion(questions, parsed) == Append(questions, parsed)

NoReturn == [kind |-> "none", value |-> <<>>]

\* the exception had it been caught and the questions made so far returned
ReturnPartial(questions) == [kind |-> "list", value |-> questions]

\* Nothing in generate_questions_by_level catches an exception: the caller
\* gets the exception and no list.
Propagate(questions) == [kind |-> "exception", value |-> <<>>]

\* The texts the generation service answers with: a well-formed question, one
\* with no correct-answer line, one with no choices, and a blank text.
BatchRaws ==
    { Join(<< <<"Q", "?">>, <<"A", ")", " ", "x">>, <<"B", ")", " ", "z">>,
              BonneReponse \o <<" ", ":", " ", "B", ")", " ", "y">> >>, NL),
      Join(<< <<"H", ".">>, <<"A", ")", " ", "x">> >>, NL),
      <<"Q", "?">>,
      <<" ">> }

\* The documents the loaded artifacts were built from: one of a single chunk
\* and one of two chunks.
BatchDocs == { <<"a">>, [i \in 1..(ScaledMaxChars + 1) |-> IF i = 2 THEN "b" ELSE "a"] }

NoLog == [picks |-> <<>>, searches |-> <<>>, calls |-> <<>>, raws |-> <<>>,
          parses |-> <<>>]

IdleBatch ==
    /\ gq_pc = "idle" /\ gq_level = <<>> /\ gq_max = 0 /\ gq_i = 0
    /\ gq_questions = <<>> /\ gq_topic = <<>> /\ gq_context = <<>> /\ gq_raw = <<>>
    /\ gq_return = NoReturn /\ gq_log = NoLog

\* The process has loaded the index of one build and the chunk list of one
\* build (as in InitSearch); no call has been made.
InitBatch ==
    /\ IdleBatch
    /\ \E d1 \in BatchDocs, d2 \in BatchDocs :
          /\ faiss_index = Encode(BuildChunkText(d1, ScaledMaxChars))
          /\ chunks_data = BuildChunkText(d2, ScaledMaxChars)
    /\ ss_pc = "idle" /\ ss_top_k = 0 /\ ss_indices = <<>> /\ ss_result = <<>>

\* The call: lines 152-177.
BatchCall ==
    /\ gq_pc = "idle"
    /\ gq_level' \in Levels
    /\ gq_max' \in 0..MaxQuestions
    /\ gq_i' = 0 /\ gq_questions' = <<>>
    /\ gq_pc' = "loop"
    /\ UNCHANGED <<gq_topic, gq_context, gq_raw, gq_return, gq_log>>
    /\ UNCHANGED notBatch

\* lines 178-180: one more iteration; topic = random.choice(themes)
BatchPick ==
    /\ gq_pc = "loop"
    /\ gq_i < gq_max
    /\ \E topic \in Themes :
          /\ gq_topic' = topic
          /\ gq_log' = [gq_log EXCEPT !.picks = Append(@, topic)]
    /\ gq_pc' = "search"
    /\ UNCHANGED <<gq_level, gq_max, gq_i, gq_questions, gq_context, gq_raw, gq_return>>
    /\ UNCHANGED notBatch

\* line 181: context = "\n".join(search_similar_chunks(query, top_k=5))
BatchSearch ==
    /\ gq_pc = "search"
    /\ LET query == QueryText(gq_level, gq_topic)
           indices == FaissSearch(faiss_index, Embed(query), BatchTopK)
       IN  /\ \A i \in 1..Len(indices) : ~PyIndexRaises(chunks_data, indices[i])
           /\ gq_context' =
                 Join([i \in 1..Len(indices) |-> PyIndex(chunks_data, indices[i])], NL)
           /\ gq_log' = [gq_log EXCEPT
                            !.searches = Append(@, [query |-> query, top_k |-> BatchTopK])]
    /\ gq_pc' = "generate"
    /\ UNCHANGED <<gq_level, gq_max, gq_i, gq_questions, gq_topic, gq_raw, gq_return>>
    /\ UNCHANGED notBatch

\* line 181, when a label FAISS returns is beyond the chunk list: IndexError
BatchSearchRaise ==
    /\ gq_pc = "search"
    /\ LET query == QueryText(gq_level, gq_topic)
           indices == FaissSearch(faiss_index, Embed(query), BatchTopK)
       IN  /\ \E i \in 1..Len(indices) : PyIndexRaises(chunks_data, indices[i])
           /\ gq_log' = [gq_log EXCEPT
                            !.searches = Append(@, [query |-> query, top_k |-> BatchTopK])]
    /\ gq_return' = Propagate(gq_questions)
    /\ gq_pc' = "raised"
    /\ UNCHANGED <<gq_level, gq_max, gq_i, gq_questions, gq_topic, gq_context, gq_raw>>
    /\ UNCHANGED notBatch

\* line 198: raw = generate_quiz(prompt); the service answers (lines 90-92)
BatchGenerate ==
    /\ gq_pc = "generate"
    /\ \E raw \in BatchRaws :
          /\ gq_raw' = raw
          /\ gq_log' = [gq_log EXCEPT
                           !.calls = Append(@, Prompt(gq_topic, gq_level, gq_context)),
                           !.raws = Append(@, raw)]
    /\ gq_pc' = "parse"
    /\ UNCHANGED <<gq_level, gq_max, gq_i, gq_questions, gq_topic, gq_context, gq_return>>
    /\ UNCHANGED notBatch

\* line 198, when requests.post raises or raise_for_status() finds a status
\* that is not 2xx (lines 90-91)
BatchGenerateFail ==
    /\ gq_pc = "generate"
    /\ gq_log' = [gq_log EXCEPT
                     !.calls = Append(@, Prompt(gq_topic, gq_level, gq_context))]
    /\ gq_return' = Propagate(gq_questions)
    /\ gq_pc' = "raised"
    /\ UNCHANGED <<gq_level, gq_max, gq_i, gq_questions, gq_topic, gq_context, gq_raw>>
    /\ UNCHANGED notBatch

\* lines 199-200: parsed = parse_question(raw); questions.append(parsed)
BatchParse ==
    /\ gq_pc = "parse"
    /\ ~ParseRaises(gq_raw)
    /\ gq_questions' = AppendQuestion(gq_questions, ParseResult(gq_raw))
    /\ gq_log' = [gq_log EXCEPT !.parses = Append(@, gq_raw)]
    /\ gq_i' = gq_i + 1
    /\ gq_pc' = "loop"
    /\ UNCHANGED <<gq_level, gq_max, gq_topic, gq_context, gq_raw, gq_return>>
    /\ UNCHANGED notBatch

\* line 199, when parse_question raises IndexError (a text with no non-empty line)
BatchParseRaise ==
    /\ gq_pc = "parse"
    /\ ParseRaises(gq_raw)
    /\ gq_log' = [gq_log EXCEPT !.parses = Append(@, gq_raw)]
    /\ gq_return' = Propagate(gq_questions)
    /\ gq_pc' = "raised"
    /\ UNCHANGED <<gq_level, gq_max, gq_i, gq_questions, gq_topic, gq_context, gq_raw>>
    /\ UNCHANGED notBatch

\* line 202: the range is exhausted; return questions
BatchReturn ==
    /\ gq_pc = "loop"
    /\ ~(gq_i < gq_max)
    /\ gq_return' = [kind |-> "list", value |-> gq_questions]
    /\ gq_pc' = "returned"
    /\ UNCHANGED <<gq_level, gq_max, gq_i, gq_questions, gq_topic, gq_context, gq_raw, gq_log>>
    /\ UNCHANGED notBatch

NextBatch ==
    \/ BatchCall
    \/ BatchPick
    \/ BatchSearch
    \/ BatchSearchRaise
    \/ BatchGenerate
    \/ BatchGenerateFail
    \/ BatchParse
    \/ BatchParseRaise
    \/ BatchReturn

(***************************************************************************)
(* database.py: the users table of users.db, init_db, register_user and    *)
(* login_user.  Each function is one SQLite transaction on its own         *)
(* connection.                                                             *)
(***************************************************************************)
Usernames == {"ana", "bob"}
Passwords == {"pw1", "pw2"}
Roles == {"formateur", "grand_public"}
Profiles == { [fullname |-> "Ana A", email |-> "ana@crf.fr"],
              [fullname |-> "Bob B", email |-> "bob@crf.fr"] }

\* the rows of `users` whose username is u
RowsOf(rows, u) == SelectSeq(rows, LAMBDA r : r.username = u)

\* lines 60-62: INSERT INTO users (...) VALUES (...); commit
InsertRow(rows, row) == Append(rows, row)

\* lines 82-85: SELECT role FROM users WHERE username=? AND password=?;
\* fetchone(); result[0] if result else None
SelectRole(rows, u, p) ==
    LET hits == SelectSeq(rows, LAMBDA r : r.username = u /\ r.password = p)
    IN  IF hits = <<>> THEN "None" ELSE hits[1].role

\* sqlite3.connect("users.db") creates an empty database when there is no file:
\* no `users` table until init_db runs.
InitUsers ==
    /\ db_table = FALSE
    /\ db_rows = <<>>
    /\ db_seq = 0
    /\ db_log = <<>>

IdleUsers == InitUsers

\* init_db, lines 24-38: CREATE TABLE IF NOT EXISTS users
InitDb ==
    /\ db_table' = TRUE
    /\ UNCHANGED <<db_rows, db_seq, db_log>>
    /\ UNCHANGED notUsers

\* register_user, lines 57-67.  The INSERT raises OperationalError when there
\* is no table (not caught: only IntegrityError is), IntegrityError when the
\* username is taken (UNIQUE, line 30), and otherwise adds a row with the next
\* AUTOINCREMENT id.
RegisterUser(username, password, role, fullname, email) ==
    /\ Len(db_log) < MaxAuthCalls
    /\ LET args == [username |-> username, password |-> password, role |-> role,
                    fullname |-> fullname, email |-> email]
           row == [id |-> db_seq + 1, username |-> username, password |-> password,
                   role |-> role, fullname |-> fullname, email |-> email]
           outcome == IF ~db_table THEN "OperationalError"
                      ELSE IF RowsOf(db_rows, username) # <<>> THEN "False"
                      ELSE "True"
       IN  /\ db_rows' = IF outcome = "True" THEN InsertRow(db_rows, row) ELSE db_rows
           /\ db_seq' = IF outcome = "True" THEN db_seq + 1 ELSE db_seq
           /\ db_log' = Append(db_log, [op |-> "register", args |-> args,
                                        result |-> outcome, rows |-> db_rows'])
    /\ UNCHANGED db_table
    /\ UNCHANGED notUsers

\* login_user, lines 80-85
LoginUser(username, password) ==
    /\ Len(db_log) < MaxAuthCalls
    /\ LET args == [username |-> username, password |-> password]
           outcome == IF ~db_table THEN "OperationalError"
                      ELSE SelectRole(db_rows, username, password)
       IN  db_log' = Append(db_log, [op |-> "login", args |-> args,
                                     result |-> outcome, rows |-> db_rows])
    /\ UNCHANGED <<db_table, db_rows, db_seq>>
    /\ UNCHANGED notUsers

NextUsers ==
    \/ InitDb
    \/ \E u \in Usernames, p \in Passwords, r \in Roles, f \in Profiles :
          RegisterUser(u, p, r, f.fullname, f.email)
    \/ \E u \in Usernames, p \in Passwords : LoginUser(u, p)

(***************************************************************************)
(* frontend/main.py, the quiz tab: one browser session.  Every interaction *)
(* runs the script from the top; st.rerun() ends the run and starts one    *)
(* more.  An action is one run of the script.                              *)
(***************************************************************************)
SessionKeys == {"questions", "niveau", "reponses", "score", "index"}

\* generate_questions_by_level(niveau): max_questions is left at its default
DefaultMaxQuestions == 3

\* What a call of generate_questions_by_level gives its caller when the
\* generation service answers raws[1], raws[2], ... in turn.
BatchOutcome(raws) ==
    IF \E i \in 1..Len(raws) : ParseRaises(raws[i])
    THEN Propagate(<<>>)
    ELSE [kind |-> "list", value |-> [i \in 1..Len(raws) |-> ParseResult(raws[i])]]

\* The lists generate_questions_by_level(niveau) can return.
QuizBatches ==
    {BatchOutcome(raws).value :
        raws \in {r \in [1..DefaultMaxQuestions -> BatchRaws] :
                     BatchOutcome(r).kind = "list"}}

\* str.lower() (on the letters the texts of the model use)
Lower(s) ==
    LET low(c) == CASE c = "A" -> "a" [] c = "B" -> "b" [] c = "C" -> "c"
                    [] c = "D" -> "d" [] c = "H" -> "h" [] c = "Q" -> "q"
                    [] c = "R" -> "r" [] OTHER -> c
    IN  [i \in 1..Len(s) |-> low(s[i])]

\* the comparison had it always succeeded
GradeAlways(user_reponse, bonne_reponse) == TRUE

\* line 92: user_reponse.strip().lower() == bonne_reponse.strip().lower()
Grade(user_reponse, bonne_reponse) ==
    Lower(Strip(user_reponse)) = Lower(Strip(bonne_reponse))

\* the index had it been advanced by two
AdvanceTwo(index) == index + 2

\* line 103: st.session_state["index"] += 1
Advance(index) == index + 1

InQuiz == "questions" \in st_keys /\ st_index < Len(st_questions)
Completed == "questions" \in st_keys /\ ~(st_index < Len(st_questions))

\* save_dashboard_results called by one session at a time: the log it leaves
\* (lines 218-235 of utils.py, no other writer in between)
Recorded(file, now, args) ==
    [state |-> "json",
     data |-> JsonDump(Append(LoadExisting(file), MakeResult(args, now)))]

\* lines 106-110: the completion branch records the session
SaveSession ==
    /\ log_file' = Recorded(log_file, clock,
                            [level |-> st_niveau, score |-> st_score,
                             total |-> Len(st_questions), answers |-> st_reponses])
    /\ clock' = clock + 1
    /\ qz_saves' = qz_saves + 1

\* lines 85-121 in a run in which no button was clicked: the current question
\* is shown, or the completion branch is taken, or nothing is.
ShowPage ==
    IF Completed THEN SaveSession ELSE UNCHANGED <<log_file, clock, qz_saves>>

InitQuiz ==
    /\ st_keys = {} /\ st_questions = <<>> /\ st_niveau = <<>>
    /\ st_reponses = <<>> /\ st_score = 0 /\ st_index = 0
    /\ ui_niveau = Debutant /\ ui_rerun = FALSE /\ ui_error = ""
    /\ qz_events = 0 /\ qz_saves = 0 /\ qz_validations = 0

IdleQuiz == InitQuiz

\* The run st.rerun() starts.
Rerun ==
    /\ ui_rerun
    /\ ui_rerun' = FALSE /\ ui_error' = ""
    /\ ShowPage
    /\ UNCHANGED <<st_keys, st_questions, st_niveau, st_reponses, st_score, st_index,
                   ui_niveau, qz_events, qz_validations>>
    /\ UNCHANGED notQuiz

\* The user picks another level in the radio of line 75: a run with no button
\* clicked.
ChangeNiveau ==
    /\ ~ui_rerun /\ qz_events < MaxEvents
    /\ ui_niveau' \in Levels \ {ui_niveau}
    /\ ui_error' = ""
    /\ ShowPage
    /\ qz_events' = qz_events + 1
    /\ UNCHANGED <<st_keys, st_questions, st_niveau, st_reponses, st_score, st_index,
                   ui_rerun, qz_validations>>
    /\ UNCHANGED notQuiz

\* "Lancer le Quiz", lines 76-84, when generate_questions_by_level returns
LaunchQuiz ==
    /\ ~ui_rerun /\ qz_events < MaxEvents
    /\ st_questions' \in QuizBatches
    /\ st_keys' = SessionKeys
    /\ st_niveau' = ui_niveau
    /\ st_reponses' = <<>> /\ st_score' = 0 /\ st_index' = 0
    /\ ui_rerun' = TRUE /\ ui_error' = ""
    /\ qz_events' = qz_events + 1 /\ qz_saves' = 0 /\ qz_validations' = 0
    /\ UNCHANGED <<ui_niveau, log_file, clock>>
    /\ UNCHANGED notQuiz

\* "Lancer le Quiz" when generate_questions_by_level raises (line 78, an
\* exception of the retrieval, the generation or the parse): the run ends
\* there with the session as it was.
LaunchQuizFail ==
    /\ ~ui_rerun /\ qz_events < MaxEvents
    /\ ui_error' \in {"IndexError", "RequestException"}
    /\ qz_events' = qz_events + 1
    /\ UNCHANGED <<st_keys, st_questions, st_niveau, st_reponses, st_score, st_index,
                   ui_niveau, ui_rerun, qz_saves, qz_validations, log_file, clock>>
    /\ UNCHANGED notQuiz

\* "Valider ma réponse", lines 85-104, with one of the choices selected
Validate ==
    /\ ~ui_rerun /\ qz_events < MaxEvents
    /\ InQuiz
    /\ LET q == st_questions[st_index + 1]
       IN  \E c \in 1..Len(q.choices) :
              LET bonne_reponse == q.answer
                  user_reponse == q.choices[c]
              IN  /\ st_score' = IF Grade(user_reponse, bonne_reponse)
                                 THEN st_score + 1 ELSE st_score
                  /\ st_reponses' = Append(st_reponses,
                                           [question |-> q.question,
                                            choices |-> q.choices,
                                            user_answer |-> user_reponse,
                                            correct_answer |-> bonne_reponse])
    /\ st_index' = Advance(st_index)
    /\ ui_rerun' = TRUE /\ ui_error' = ""
    /\ qz_events' = qz_events + 1 /\ qz_validations' = qz_validations + 1
    /\ UNCHANGED <<st_keys, st_questions, st_niveau, ui_niveau, qz_saves, log_file, clock>>
    /\ UNCHANGED notQuiz

\* "Valider ma réponse" on a question with no choice: st.radio over an empty
\* list gives None, and None.strip() (line 92) raises AttributeError; the run
\* ends there with the session as it was.
ValidateNoChoice ==
    /\ ~ui_rerun /\ qz_events < MaxEvents
    /\ InQuiz
    /\ st_questions[st_index + 1].choices = <<>>
    /\ ui_error' = "AttributeError"
    /\ qz_events' = qz_events + 1
    /\ UNCHANGED <<st_keys, st_questions, st_niveau, st_reponses, st_score, st_index,
                   ui_niveau, ui_rerun, qz_saves, qz_validations, log_file, clock>>
    /\ UNCHANGED notQuiz

\* "Rejouer", lines 105-126: the run of the click takes the completion branch
\* from its top (line 110 included) before it reaches the button.
Replay ==
    /\ ~ui_rerun /\ qz_events < MaxEvents
    /\ Completed
    /\ SaveSession
    /\ st_keys' = st_keys \ SessionKeys
    /\ st_questions' = <<>> /\ st_niveau' = <<>> /\ st_reponses' = <<>>
    /\ st_score' = 0 /\ st_index' = 0
    /\ ui_rerun' = TRUE /\ ui_error' = ""
    /\ qz_events' = qz_events + 1
    /\ UNCHANGED <<ui_niveau, qz_validations>>
    /\ UNCHANGED notQuiz

NextQuiz ==
    \/ Rerun
    \/ ChangeNiveau
    \/ LaunchQuiz
    \/ LaunchQuizFail
    \/ Validate
    \/ ValidateNoChoice
    \/ Replay

(***************************************************************************)
(* The specifications.                                                     *)
(***************************************************************************)
ChunkInit == InitChunk /\ IdleParse /\ IdleIndex /\ IdleSearch /\ IdleSave /\ IdleBatch /\ IdleUsers
             /\ IdleQuiz
SpecChunk == ChunkInit /\ [][NextChunk]_vars

ParseInit == InitParse /\ IdleChunk /\ IdleIndex /\ IdleSearch /\ IdleSave /\ IdleBatch /\ IdleUsers
             /\ IdleQuiz
SpecParse == ParseInit /\ [][NextParse]_vars

IndexInit == InitIndex /\ IdleChunk /\ IdleParse /\ IdleSearch /\ IdleSave /\ IdleBatch /\ IdleUsers
             /\ IdleQuiz
SpecIndex == IndexInit /\ [][NextIndex]_vars

SearchInit == InitSearch /\ IdleChunk /\ IdleParse /\ IdleIndex /\ IdleSave /\ IdleBatch /\ IdleUsers
             /\ IdleQuiz
SpecSearch == SearchInit /\ [][NextSearch]_vars

SaveInit == InitSave /\ IdleChunk /\ IdleParse /\ IdleIndex /\ IdleSearch /\ IdleBatch /\ IdleUsers
             /\ IdleQuiz
SpecSave == SaveInit /\ [][NextSave]_vars
SpecSaveSeq == SaveInit /\ [][NextSaveSeq]_vars

BatchInit == InitBatch /\ IdleChunk /\ IdleParse /\ IdleIndex /\ IdleSave /\ IdleUsers
             /\ IdleQuiz
SpecBatch == BatchInit /\ [][NextBatch]_vars

UsersInit == InitUsers /\ IdleChunk /\ IdleParse /\ IdleIndex /\ IdleSearch /\ IdleSave
             /\ IdleBatch /\ IdleQuiz
SpecUsers == UsersInit /\ [][NextUsers]_vars

QuizInit == InitQuiz /\ IdleChunk /\ IdleParse /\ IdleIndex /\ IdleSearch /\ IdleSave
            /\ IdleBatch /\ IdleUsers
SpecQuiz == QuizInit /\ [][NextQuiz]_vars

(***************************************************************************)
(* Claims about the chunkers (checked under SpecChunk).                    *)
(***************************************************************************)
AllWithin(chunks, n) == \A k \in 1..Len(chunks) : Len(chunks[k]) <= n

\* out is inp with some whitespace characters deleted and nothing else changed.
RECURSIVE DeletesOnlyWhitespace(_, _)
DeletesOnlyWhitespace(out, inp) ==
    IF inp = <<>> THEN out = <<>>
    ELSE \/ /\ out # <<>>
            /\ Head(out) = Head(inp)
            /\ DeletesOnlyWhitespace(Tail(out), Tail(inp))
         \/ /\ Head(inp) \in Whitespace
            /\ DeletesOnlyWhitespace(out, Tail(inp))

\* C2 (as claimed): split_text terminates for every text and every max_len > 0.
\* The loop reads only `text` and max_len, and its body is deterministic, so it
\* terminates exactly when no iteration leaves `text` as it found it: an
\* iteration that does is repeated for ever.
C2_SplitTextTerminates == [][SplitTextLoop => sp_text' # sp_text]_vars

\* C3: both copies of chunk_text return pieces whose concatenation is the input
\* text, each piece at most max_chars long.
C3_ChunkTextCovers ==
    /\ ct_pc = "done" =>
          Concat(ct_chunks) = ck_text /\ AllWithin(ct_chunks, ck_max)
    /\ bt_pc = "done" =>
          Concat(bt_chunks) = ck_text /\ AllWithin(bt_chunks, ck_max)

C3_Witness ==
    /\ ct_pc = "done" /\ bt_pc = "done"
    /\ Len(ct_chunks) >= 2 /\ Len(bt_chunks) >= 2
    /\ Len(ct_chunks[Len(ct_chunks)]) < ck_max

C5_EmptyTextOneEmptyChunk ==
    ck_text = <<>> =>
        /\ ct_pc = "done" => ct_chunks = << <<>> >>
        /\ bt_pc = "done" => bt_chunks = << <<>> >>
        /\ sp_pc = "done" => sp_chunks = << <<>> >>

\* C5 (amended): on the empty text both copies of chunk_text return the empty
\* list (no chunk at all) and split_text returns exactly one chunk, the empty
\* string.
C5_EmptyTextAmended ==
    ck_text = <<>> =>
        /\ ct_pc = "done" => ct_chunks = <<>>
        /\ bt_pc = "done" => bt_chunks = <<>>
        /\ sp_pc = "done" => sp_chunks = << <<>> >>

C5_Witness ==
    ck_text = <<>> /\ ct_pc = "done" /\ bt_pc = "done" /\ sp_pc = "done"

(***************************************************************************)
(* Claims about parse_question (checked under SpecParse).                  *)
(***************************************************************************)
\* C1 (as claimed): parse_question never raises, whatever the raw text.
C1_ParseNeverFails == pq_pc # "raised"

\* The first label A) to D) a line contains, <<>> when it contains none.
C10_LabelIn(line) ==
    LET hits == {i \in 1..(Len(line) - 1) :
                    line[i] \in LabelLetters /\ line[i + 1] = ")"}
    IN  IF hits = {} THEN <<>>
        ELSE LET i == CHOOSE h \in hits : \A j \in hits : h <= j
             IN  SubSeq(line, i, i + 1)

C10_ClaimedAnswer(raw) ==
    LET lines == ParseLines(raw)
        label == C10_LabelIn(ParseCorrectLine(lines))
        choices == ParseChoices(lines)
    IN  IF label = <<>> THEN <<>>
        ELSE FirstOr(choices,
                     {i \in 1..Len(choices) : StartsWith(choices[i], label)},
                     <<>>)

\* C10 (as claimed): the answer parse_question returns is the choice that starts
\* with the label A) to D) contained in the first line holding "Bonne réponse"
\* or "Réponse", and the empty string when there is no such line, no label in
\* it, or no choice starting with the label.
C10_AnswerFromLabel ==
    pq_pc = "returned" => pq_result.answer = C10_ClaimedAnswer(pq_raw)

\* The lines of a raw text as the reader sees them: cut at newlines, trimmed.
TrimmedLines(raw) ==
    LET split == SplitOn(raw, NL) IN [i \in 1..Len(split) |-> Strip(split[i])]

HasMark(line) == \E i \in 1..Len(line) : line[i] = "?"

\* C11: the question text is the first trimmed non-empty line that contains a
\* question mark; when no line contains one, it is the first non-empty line of
\* the raw text.
C11_QuestionText ==
    pq_pc = "returned" =>
        LET tl == TrimmedLines(pq_raw)
            q == pq_result.question
        IN  \E i \in 1..Len(tl) :
               /\ tl[i] = q /\ q # <<>>
               /\ IF \E j \in 1..Len(tl) : HasMark(tl[j])
                  THEN HasMark(q) /\ \A j \in 1..(i - 1) : ~HasMark(tl[j])
                  ELSE \A j \in 1..(i - 1) : tl[j] = <<>>

\* A returned text whose first non-empty line has no question mark and a later
\* line has one: the question is that later line.
C11_Witness ==
    /\ pq_pc = "returned"
    /\ pq_result.question = <<"Q", "?">>
    /\ TrimmedLines(pq_raw)[1] = <<"H", ".">>

\* sub is seq with some elements left out, the others in the same order
RECURSIVE IsSubsequence(_, _)
IsSubsequence(sub, seq) ==
    IF sub = <<>> THEN TRUE
    ELSE IF seq = <<>> THEN FALSE
    ELSE IF Head(sub) = Head(seq) THEN IsSubsequence(Tail(sub), Tail(seq))
    ELSE IsSubsequence(sub, Tail(seq))

\* C19: on every raw text on which parse_question returns, the answer is the
\* empty string or one element of the returned choices, and the choices are
\* trimmed lines of the raw text that start with A), B), C) or D), in the
\* order in which the lines appear.
C19_AnswerAmongChoices ==
    pq_pc = "returned" =>
        LET choices == pq_result.choices
        IN  /\ \/ pq_result.answer = <<>>
               \/ \E i \in 1..Len(choices) : choices[i] = pq_result.answer
            /\ \A i \in 1..Len(choices) :
                  /\ Len(choices[i]) >= 2
                  /\ choices[i][1] \in LabelLetters /\ choices[i][2] = ")"
            /\ IsSubsequence(choices, TrimmedLines(pq_raw))

\* Two choices, out of lines one of which needed trimming, and an answer that
\* is the second of them.
C19_Witness ==
    /\ pq_pc = "returned"
    /\ pq_result.choices = << <<"A", ")", " ", "x">>, <<"B", ")", " ", "y">> >>
    /\ pq_result.answer = <<"B", ")", " ", "y">>

(***************************************************************************)
(* Claims about the persisted index (SpecIndex) and the retriever          *)
(* (SpecSearch).                                                           *)
(***************************************************************************)
\* C6 (as claimed): in every reachable state the two artifacts are written as a
\* pair: neither exists, or both do and the stored vectors are, position by
\* position, the embeddings of the stored chunks.
C6_ArtifactsPaired ==
    \/ ~index_file.exists /\ ~chunks_file.exists
    \/ /\ index_file.exists /\ chunks_file.exists
       /\ Len(index_file.data) = Len(chunks_file.data)
       /\ \A i \in 1..Len(index_file.data) :
             index_file.data[i] = Embed(chunks_file.data[i])

\* C7 (as claimed): over an index aligned with its chunk list,
\* search_similar_chunks(query, K) returns min(K, number of chunks) texts, each
\* the chunk at a distinct position of the list: nothing padded, nothing twice.
C7_SearchReturnsAtMostAll ==
    (ss_pc = "returned" /\ faiss_index = Encode(chunks_data)) =>
        /\ Len(ss_result) = Min(ss_top_k, Len(chunks_data))
        /\ \A i \in 1..Len(ss_indices) :
              /\ ss_indices[i] \in 0..(Len(chunks_data) - 1)
              /\ \A j \in 1..Len(ss_indices) :
                    ss_indices[i] = ss_indices[j] => i = j

(***************************************************************************)
(* Claims about save_dashboard_results (SpecSave: two concurrent writers;  *)
(* SpecSaveSeq: one writer, call after call).                              *)
(***************************************************************************)
\* The records the log holds (none while there is no readable file).
LogRecords == IF log_file.state = "json" THEN JsonLoad(log_file.data) ELSE <<>>

Front(seq) == SubSeq(seq, 1, Len(seq) - 1)
Records(seq) == {seq[i] : i \in 1..Len(seq)}

\* C8: two concurrent calls are not serialised, the last writer wins.  Whenever
\* both writers have returned and the file is readable, the log is exactly the
\* list one of them wrote; and if both had read the same existing list, the log
\* is that list plus one record, not both: the other writer's record is lost.
C8_LastWriterWins ==
    (sv_pc[1] = "done" /\ sv_pc[2] = "done" /\ log_file.state = "json") =>
        /\ LogRecords \in {sv_data[1], sv_data[2]}
        /\ Front(sv_data[1]) = Front(sv_data[2]) =>
              /\ Len(LogRecords) = Len(Front(sv_data[1])) + 1
              /\ ~(sv_result[1] \in Records(LogRecords)
                   /\ sv_result[2] \in Records(LogRecords))

\* Both read the existing one-record list before either rewrote the file, both
\* returned, and the log holds the second writer's record and not the first's.
C8_Witness ==
    /\ sv_pc[1] = "done" /\ sv_pc[2] = "done" /\ log_file.state = "json"
    /\ Front(sv_data[1]) = Front(sv_data[2])
    /\ Len(Front(sv_data[1])) = 1
    /\ LogRecords = sv_data[2]
    /\ sv_result[1] \notin Records(LogRecords)

\* C9: with no concurrency, whenever no call is in progress the log holds one
\* record per call made, in call order, each with the level, score, total and
\* answers supplied to that call and the time of that call (no file before the
\* first call).
C9_SequentialAppends ==
    sv_pc[1] \in {"idle", "done"} =>
        /\ log_file.state = IF history = <<>> THEN "absent" ELSE "json"
        /\ Len(LogRecords) = Len(history)
        /\ \A i \in 1..Len(history) :
              /\ LogRecords[i].level = history[i].args.level
              /\ LogRecords[i].score = history[i].args.score
              /\ LogRecords[i].total = history[i].args.total
              /\ LogRecords[i].answers = history[i].args.answers
              /\ LogRecords[i].timestamp = history[i].at

\* Two calls made from a missing file, both returned: exactly 2 records.
C9_Witness ==
    /\ sv_pc[1] = "done"
    /\ Len(history) = 2
    /\ Len(LogRecords) = 2
    /\ history[1].args # history[2].args

(***************************************************************************)
(* Claims about generate_questions_by_level (checked under SpecBatch).     *)
(***************************************************************************)
\* C12: a call with count N that returns, returns exactly N questions, one per
\* iteration and in generation order: the i-th is the parse of the text the
\* i-th generation call received, and the call made N topic picks, N
\* retrievals (each of the top 5 for the query of that pick), N generation
\* calls and N parses.
C12_ReturnsOnePerIteration ==
    gq_pc = "returned" =>
        /\ gq_return.kind = "list"
        /\ Len(gq_return.value) = gq_max
        /\ Len(gq_log.picks) = gq_max /\ Len(gq_log.searches) = gq_max
        /\ Len(gq_log.calls) = gq_max /\ Len(gq_log.parses) = gq_max
        /\ gq_log.parses = gq_log.raws
        /\ \A i \in 1..gq_max :
              /\ gq_log.searches[i] =
                    [query |-> QueryText(gq_level, gq_log.picks[i]), top_k |-> 5]
              /\ gq_log.calls[i][1] = gq_log.picks[i]
              /\ gq_return.value[i].question = ParseQuestion(ParseLines(gq_log.raws[i]))
              /\ gq_return.value[i].choices = ParseChoices(ParseLines(gq_log.raws[i]))
              /\ gq_return.value[i].answer = ParseAnswer(ParseLines(gq_log.raws[i]))

\* A returned batch of the largest count whose first and last question differ.
C12_Witness ==
    /\ gq_pc = "returned"
    /\ gq_max = MaxQuestions
    /\ gq_return.value[1] # gq_return.value[gq_max]
    /\ gq_log.picks[1] # gq_log.picks[gq_max]

\* C13: every iteration issues one generation call and none is repeated (the
\* calls made are the questions kept plus the one in progress or failed); and
\* once a call has failed the caller has an exception and no list, whatever
\* the questions already generated, and nothing more is done.
C13_Failed ==
    gq_pc = "raised" /\ Len(gq_log.calls) > Len(gq_log.raws)

C13_NoRetryNoPartialList ==
    /\ Len(gq_log.calls) =
          Len(gq_questions) + (IF gq_pc \in {"parse", "raised"}
                                  /\ Len(gq_log.searches) = Len(gq_log.calls)
                               THEN 1 ELSE 0)
    /\ Len(gq_log.calls) <= gq_max
    /\ C13_Failed =>
          /\ gq_return.kind = "exception"
          /\ gq_return.value = <<>>
          /\ ~ENABLED NextBatch

\* The third call failed after two questions had been generated.
C13_Witness ==
    /\ C13_Failed
    /\ Len(gq_questions) = 2

(***************************************************************************)
(* Claims about the user store (checked under SpecUsers).                  *)
(***************************************************************************)
Registrations == SelectSeq(db_log, LAMBDA e : e.op = "register")

\* the rows db_log[i] found: those the call before it left
RowsBefore(i) == IF i = 1 THEN <<>> ELSE db_log[i - 1].rows

\* the account fields of a row are those of a call's arguments
SameAccount(row, args) ==
    /\ row.username = args.username /\ row.password = args.password
    /\ row.role = args.role /\ row.fullname = args.fullname
    /\ row.email = args.email

\* C14 (as claimed): register_user never raises; a registration returns True
\* exactly when no earlier registration named the same username, and False
\* otherwise; the store holds at most one account per username, and that
\* account is the one of the first registration of the username, whatever
\* later registrations supplied.
C14_RegisterOnce ==
    LET regs == Registrations
    IN  /\ \A i \in 1..Len(regs) :
              /\ regs[i].result \in {"True", "False"}
              /\ regs[i].result = "True" <=>
                    \A j \in 1..(i - 1) : regs[j].args.username # regs[i].args.username
        /\ \A u \in Usernames : Len(RowsOf(db_rows, u)) <= 1
        /\ \A k \in 1..Len(db_rows) :
              \E i \in 1..Len(regs) :
                 /\ SameAccount(db_rows[k], regs[i].args)
                 /\ \A j \in 1..(i - 1) :
                       regs[j].args.username # regs[i].args.username

\* What holds of register_user: on a database with no `users` table it raises
\* OperationalError; with the table, it returns True exactly when no earlier
\* registration of the username returned True, and False otherwise, and the
\* store holds one account per username that registered successfully, with
\* the fields of that successful registration.
C14_OnceTableExists ==
    LET regs == Registrations
        won(i) == regs[i].result = "True"
    IN  /\ \A i \in 1..Len(db_log) :
              db_log[i].result = "OperationalError" => RowsBefore(i) = <<>>
        /\ \A i \in 1..Len(regs) :
              regs[i].result # "OperationalError" =>
                 /\ regs[i].result \in {"True", "False"}
                 /\ won(i) <=>
                       \A j \in 1..(i - 1) :
                          won(j) => regs[j].args.username # regs[i].args.username
        /\ \A u \in Usernames : Len(RowsOf(db_rows, u)) <= 1
        /\ \A k \in 1..Len(db_rows) :
              \E i \in 1..Len(regs) : won(i) /\ SameAccount(db_rows[k], regs[i].args)
        /\ \A i \in 1..Len(regs) :
              won(i) => \E k \in 1..Len(db_rows) : SameAccount(db_rows[k], regs[i].args)

\* C15 (as claimed): login_user returns the stored role when an account with
\* that username and that password exists and None otherwise (wrong password
\* and unknown username alike), and leaves the store as it found it.
C15_LoginRoleOrNone ==
    \A i \in 1..Len(db_log) :
       db_log[i].op = "login" =>
          LET before == RowsBefore(i)
              a == db_log[i].args
              accounts == {k \in 1..Len(before) :
                             before[k].username = a.username
                             /\ before[k].password = a.password}
          IN  /\ db_log[i].rows = before
              /\ IF accounts = {} THEN db_log[i].result = "None"
                 ELSE \E k \in accounts : db_log[i].result = before[k].role

\* What holds of login_user: the same, on a database with the `users` table;
\* with no table it raises OperationalError.
C15_OnceTableExists ==
    \A i \in 1..Len(db_log) :
       db_log[i].op = "login" =>
          LET before == RowsBefore(i)
              a == db_log[i].args
              accounts == {k \in 1..Len(before) :
                             before[k].username = a.username
                             /\ before[k].password = a.password}
          IN  /\ db_log[i].rows = before
              /\ \/ db_log[i].result = "OperationalError" /\ before = <<>>
                 \/ IF accounts = {} THEN db_log[i].result = "None"
                    ELSE \E k \in accounts : db_log[i].result = before[k].role

(***************************************************************************)
(* Claims about the quiz tab (checked under SpecQuiz).                     *)
(***************************************************************************)
\* C16 (as claimed): when the user validates an answer to a question whose
\* parsed answer is the empty string, whatever its choices (none included),
\* the score stays as it is, one answer is recorded and the quiz moves to the
\* next question.
C16_EmptyAnswerGradedWrong ==
    [][(/\ InQuiz
        /\ st_questions[st_index + 1].answer = <<>>
        /\ (Validate \/ ValidateNoChoice))
       => /\ st_score' = st_score
          /\ Len(st_reponses') = Len(st_reponses) + 1
          /\ st_index' = st_index + 1]_vars

\* What holds of such a question: when it has choices, validating any of them
\* leaves the score, records the answer and moves on; when it has none, the
\* click raises and changes nothing of the session.
C16_WhenChoicesExist ==
    [][(InQuiz /\ st_questions[st_index + 1].answer = <<>>)
       => /\ Validate =>
                /\ st_score' = st_score
                /\ Len(st_reponses') = Len(st_reponses) + 1
                /\ st_index' = st_index + 1
          /\ ValidateNoChoice =>
                UNCHANGED <<st_keys, st_questions, st_niveau, st_reponses, st_score,
                            st_index>>]_vars

\* C17 (as claimed): a quiz session is recorded once: save_dashboard_results
\* has been called at most once since the launch, and exactly once as soon as
\* the completion page has been shown, however many runs follow.
C17_RecordedOnce ==
    /\ qz_saves <= 1
    /\ (Completed /\ ~ui_rerun) => qz_saves = 1

\* C18: while a quiz is in the session, the recorded answers are as many as the
\* index, 0 <= score <= index <= number of questions, and the score counts the
\* recorded answers whose user answer equals the correct answer once both are
\* trimmed and lower-cased.
C18_ScoreCountsMatches ==
    "questions" \in st_keys =>
        /\ Len(st_reponses) = st_index
        /\ 0 <= st_score /\ st_score <= st_index /\ st_index <= Len(st_questions)
        /\ st_score =
              Cardinality({k \in 1..Len(st_reponses) :
                              Lower(Strip(st_reponses[k].user_answer)) =
                                 Lower(Strip(st_reponses[k].correct_answer))})

\* A finished quiz with one right answer among three.
C18_Witness ==
    /\ Completed /\ ~ui_rerun
    /\ st_index = 3 /\ st_score = 1

====
